---------------------------- MODULE Spec2Model ----------------------------
(***************************************************************************)
(* Model of the cpi-test program: the instruction codec                    *)
(* (cpi-test/program/src/instruction.rs), the processor                    *)
(* (cpi-test/program/src/processor.rs), the error conversion               *)
(* (cpi-test/program/src/error.rs) and the client that builds the          *)
(* instruction (cpi-test/cli/src/main.rs).                                 *)
(*                                                                         *)
(* A u64 is kept at its full width as four 16-bit words, least             *)
(* significant first, so that every one of its eight bytes can be non-zero.*)
(* A byte buffer is a sequence of numbers in 0..255.                       *)
(***************************************************************************)
EXTENDS Integers, Sequences, FiniteSets, TLC

VARIABLES
    pc,             \* position of the current call inside Processor::process
    client,         \* command_transfer's owner, recipient and lamports, or NoCommand
    tx,             \* instruction built by the client and not yet completed, or NoTx
    input,          \* `input: &[u8]` of the current call
    accounts,       \* `accounts: &[AccountInfo]` of the current call
    instruction,    \* value returned by CpiInstruction::unpack (a Result)
    log,            \* messages written with info!
    iter,           \* number of entries consumed from account_info_iter
    infos,          \* account handles bound so far (source, dest, system program)
    invocations,    \* calls made to solana_sdk::program::invoke during this call
    invoke_result,  \* what invoke returned
    result,         \* ProgramResult returned by Processor::process
    calls           \* number of completed calls

vars == <<pc, client, tx, input, accounts, instruction, log, iter, infos,
          invocations, invoke_result, result, calls>>

----------------------------------------------------------------------------
(* Bounds of the model *)

MaxAccounts == 4

MaxTrailing == 1

MaxCalls == 2

----------------------------------------------------------------------------
(* Result and error values *)

Ok(v) == [ok |-> TRUE, val |-> v]

Err(e) == [ok |-> FALSE, val |-> e]

Unit == <<>>

Pending == [ok |-> FALSE, val |-> <<"Pending">>]

Custom(n) == <<"Custom", n>>

NotEnoughAccountKeys == <<"NotEnoughAccountKeys">>

MissingRequiredSignature == <<"MissingRequiredSignature">>

InvalidInstruction == 0

CpiErrorToProgramError(e) == Custom(e)

----------------------------------------------------------------------------
(* u64 arithmetic on four 16-bit words *)

U64 == [1..4 -> 0..65535]

U64FromNat(n) == <<n % 65536, n \div 65536, 0, 0>>

\* Mutant: the bytes in big-endian order.
to_be_bytes(amount) ==
    [i \in 1..8 |->
        IF i % 2 = 1 THEN amount[(10 - i) \div 2] \div 256
                     ELSE amount[(10 - i) \div 2] % 256]

to_le_bytes(amount) ==
    [i \in 1..8 |->
        IF i % 2 = 1 THEN amount[(i + 1) \div 2] % 256
                     ELSE amount[i \div 2] \div 256]

\* Mutant: only the low four bytes are read (a u32 amount).
from_le_bytes_u32(bytes) ==
    [k \in 1..4 |-> IF k <= 2 THEN bytes[2 * k - 1] + 256 * bytes[2 * k] ELSE 0]

from_le_bytes(bytes) ==
    [k \in 1..4 |-> bytes[2 * k - 1] + 256 * bytes[2 * k]]

----------------------------------------------------------------------------
(* instruction.rs: the codec *)

TAG_INVOKED_TRANSFER == 0

AMOUNT_LEN == 8

InvokedTransfer(amount) == [tag |-> "InvokedTransfer", amount |-> amount]

Panicked == [ok |-> FALSE, val |-> <<"panic">>]

\* Mutant: `&rest[..8]` in place of `rest.get(..8)`: a short payload panics.
unpack_index(buf) ==
    IF Len(buf) = 0
    THEN Err(CpiErrorToProgramError(InvalidInstruction))
    ELSE IF Head(buf) = TAG_INVOKED_TRANSFER
         THEN IF Len(Tail(buf)) >= AMOUNT_LEN
              THEN Ok(InvokedTransfer(from_le_bytes(SubSeq(Tail(buf), 1, AMOUNT_LEN))))
              ELSE Panicked
         ELSE Err(CpiErrorToProgramError(InvalidInstruction))

\* Mutant: exact-length decoding, bytes after the ninth are rejected.
unpack_strict(buf) ==
    IF Len(buf) = 0
    THEN Err(CpiErrorToProgramError(InvalidInstruction))
    ELSE IF Head(buf) = TAG_INVOKED_TRANSFER /\ Len(Tail(buf)) = AMOUNT_LEN
         THEN Ok(InvokedTransfer(from_le_bytes(Tail(buf))))
         ELSE Err(CpiErrorToProgramError(InvalidInstruction))

unpack(buf) ==
    IF Len(buf) = 0
    THEN Err(CpiErrorToProgramError(InvalidInstruction))
    ELSE LET tag == Head(buf)
             rest == Tail(buf)
         IN  IF tag = TAG_INVOKED_TRANSFER
             THEN IF Len(rest) >= AMOUNT_LEN
                  THEN Ok(InvokedTransfer(from_le_bytes(SubSeq(rest, 1, AMOUNT_LEN))))
                  ELSE Err(CpiErrorToProgramError(InvalidInstruction))
             ELSE Err(CpiErrorToProgramError(InvalidInstruction))

pack(ix) ==
    <<TAG_INVOKED_TRANSFER>> \o to_le_bytes(ix.amount)


(* Creates an InvokedTransfer instruction (instruction.rs, invoked_transfer) *)

SystemProgramId == "system_program"

CpiTestId == "cpi_test"

AccountMeta(pubkey, is_signer, is_writable) ==
    [pubkey |-> pubkey, is_signer |-> is_signer, is_writable |-> is_writable]

AccountMetaNew(pubkey, is_signer) == AccountMeta(pubkey, is_signer, TRUE)

AccountMetaNewReadonly(pubkey, is_signer) == AccountMeta(pubkey, is_signer, FALSE)

\* Mutant: only the two accounts that Vec::with_capacity(2) allows for.
invoked_transfer_two(program_id, source_pubkey, destination_pubkey, amount) ==
    Ok([program_id |-> program_id,
        accounts |-> <<AccountMetaNew(source_pubkey, TRUE),
                       AccountMetaNew(destination_pubkey, FALSE)>>,
        data |-> pack(InvokedTransfer(amount))])

invoked_transfer(program_id, source_pubkey, destination_pubkey, amount) ==
    LET data == pack(InvokedTransfer(amount))
        accounts0 == <<>>
        accounts1 == Append(accounts0, AccountMetaNew(source_pubkey, TRUE))
        accounts2 == Append(accounts1, AccountMetaNew(destination_pubkey, FALSE))
        accounts3 == Append(accounts2, AccountMetaNewReadonly(SystemProgramId, FALSE))
    IN  Ok([program_id |-> program_id, accounts |-> accounts3, data |-> data])

----------------------------------------------------------------------------
(* Inputs of the model *)

UserKeys == {"alice", "bob"}

Amounts ==
    { U64FromNat(0),
      U64FromNat(1),
      U64FromNat(255),
      U64FromNat(256),
      U64FromNat(65535),
      U64FromNat(65536),
      U64FromNat(1000000),
      <<0, 0, 1, 0>>,
      <<0, 0, 0, 32768>>,
      <<513, 1027, 1541, 2055>>,
      <<65535, 65535, 65535, 65535>> }

Tags == {0, 1, 255}

Payloads ==
    { <<64, 66, 15, 0, 0, 0, 0, 0>>,
      <<1, 2, 3, 4, 5, 6, 7, 8>>,
      <<255, 255, 255, 255, 255, 255, 255, 255>> }

TrailBytes == {0, 255}

SeqsUpTo(S, n) == UNION { [1..k -> S] : k \in 0..n }

\* Every buffer that is a prefix of tag ++ payload ++ trailing bytes: the empty
\* buffer, every tag alone, truncated payloads, exact 9-byte buffers and
\* buffers with bytes after the ninth.
Buffers ==
    { SubSeq(<<t>> \o p \o x, 1, n) :
        <<t, p, x, n>> \in { q \in Tags \X Payloads \X SeqsUpTo(TrailBytes, MaxTrailing)
                                       \X (0..(1 + AMOUNT_LEN + MaxTrailing)) :
                              q[4] <= 1 + AMOUNT_LEN + Len(q[3]) } }

AccountInfo(key, is_signer, is_writable) ==
    [key |-> key, is_signer |-> is_signer, is_writable |-> is_writable]

AccountInfos ==
    { AccountInfo("alice", TRUE, TRUE),
      AccountInfo("bob", FALSE, TRUE),
      AccountInfo(SystemProgramId, FALSE, FALSE) }

AccountLists == SeqsUpTo(AccountInfos, MaxAccounts)

\* The handles the runtime passes to the program for an instruction's metas.
InfosOf(metas) ==
    [i \in 1..Len(metas) |->
        AccountInfo(metas[i].pubkey, metas[i].is_signer, metas[i].is_writable)]

DelegatedErrors == { Custom(1), MissingRequiredSignature }

InvokeResults == { Ok(Unit) } \cup { Err(e) : e \in DelegatedErrors }

NoTx == [program_id |-> "none", accounts |-> <<>>, data |-> <<>>]

NoCommand == [owner |-> "none", recipient |-> "none", lamports |-> U64FromNat(0)]

----------------------------------------------------------------------------
(* processor.rs *)

\* solana_sdk::account_info::next_account_info on an iterator that has
\* consumed `n` entries of `list`.
\* Mutant: an exhausted iterator hands out the last entry again.
next_account_info_reuse(list, n) ==
    IF n < Len(list) THEN Ok(list[n + 1])
    ELSE IF Len(list) > 0 THEN Ok(list[Len(list)])
    ELSE Err(NotEnoughAccountKeys)

next_account_info(list, n) ==
    IF n < Len(list) THEN Ok(list[n + 1]) ELSE Err(NotEnoughAccountKeys)

\* solana_sdk::system_instruction::transfer
system_instruction_transfer(from_pubkey, to_pubkey, lamports) ==
    [program_id |-> SystemProgramId,
     accounts |-> <<AccountMetaNew(from_pubkey, TRUE), AccountMetaNew(to_pubkey, FALSE)>>,
     transfer |-> lamports]

Init ==
    /\ pc = "idle"
    /\ client = NoCommand
    /\ tx = NoTx
    /\ input = <<>>
    /\ accounts = <<>>
    /\ instruction = Pending
    /\ log = <<>>
    /\ iter = 0
    /\ infos = <<>>
    /\ invocations = <<>>
    /\ invoke_result = Pending
    /\ result = Pending
    /\ calls = 0

\* main.rs command_transfer: the client builds the instruction.
CommandTransfer ==
    /\ pc = "idle"
    /\ tx = NoTx
    /\ calls < MaxCalls
    /\ \E owner \in UserKeys, recipient \in UserKeys, lamports \in Amounts :
          /\ client' = [owner |-> owner, recipient |-> recipient, lamports |-> lamports]
          /\ tx' = invoked_transfer(CpiTestId, owner, recipient, lamports).val
    /\ UNCHANGED <<pc, input, accounts, instruction, log, iter, infos,
                   invocations, invoke_result, result, calls>>

\* Entry into Processor::process with the arguments given.
Enter(data, account_infos) ==
    /\ pc' = "unpack"
    /\ input' = data
    /\ accounts' = account_infos
    /\ instruction' = Pending
    /\ log' = <<>>
    /\ iter' = 0
    /\ infos' = <<>>
    /\ invocations' = <<>>
    /\ invoke_result' = Pending
    /\ result' = Pending

\* main.rs: the transaction holding the built instruction is sent and the
\* runtime calls the program with the instruction's data and accounts.
SendTransaction ==
    /\ pc = "idle"
    /\ tx # NoTx
    /\ Enter(tx.data, InfosOf(tx.accounts))
    /\ UNCHANGED <<client, tx, calls>>

\* Any other caller: an arbitrary buffer and an arbitrary account list.
Call ==
    /\ pc = "idle"
    /\ tx = NoTx
    /\ calls < MaxCalls
    /\ \E data \in Buffers, account_infos \in AccountLists :
          Enter(data, account_infos)
    /\ UNCHANGED <<client, tx, calls>>

\* Mutant: the account list is checked before the buffer is decoded.
Unpack_AccountsFirst ==
    /\ pc = "unpack"
    /\ instruction' = unpack(input)
    /\ IF Len(accounts) < 3
       THEN /\ result' = Err(NotEnoughAccountKeys)
            /\ pc' = "done"
            /\ UNCHANGED log
       ELSE IF instruction'.ok
       THEN /\ log' = Append(log, "Instruction: InvokedTransfer")
            /\ pc' = "source"
            /\ UNCHANGED result
       ELSE /\ result' = Err(instruction'.val)
            /\ pc' = "done"
            /\ UNCHANGED log
    /\ UNCHANGED <<client, tx, input, accounts, iter, infos, invocations, invoke_result, calls>>

\* processor.rs line 41: let instruction = CpiInstruction::unpack(input)?;
\* lines 43-46: the match and info!("Instruction: InvokedTransfer").
Unpack ==
    /\ pc = "unpack"
    /\ instruction' = unpack(input)
    /\ IF instruction'.ok
       THEN /\ log' = Append(log, "Instruction: InvokedTransfer")
            /\ pc' = "source"
            /\ UNCHANGED result
       ELSE /\ result' = Err(instruction'.val)
            /\ pc' = "done"
            /\ UNCHANGED log
    /\ UNCHANGED <<client, tx, input, accounts, iter, infos, invocations, invoke_result, calls>>

\* One `next_account_info(account_info_iter)?` of process_invoked_transfer.
TakeAccount(here, next) ==
    /\ pc = here
    /\ LET r == next_account_info(accounts, iter)
       IN  IF r.ok
           THEN /\ infos' = Append(infos, r.val)
                /\ iter' = iter + 1
                /\ pc' = next
                /\ UNCHANGED result
           ELSE /\ result' = Err(r.val)
                /\ pc' = "done"
                /\ UNCHANGED <<infos, iter>>
    /\ UNCHANGED <<client, tx, input, accounts, instruction, log, invocations, invoke_result, calls>>

SourceAccount == TakeAccount("source", "dest")

DestAccount == TakeAccount("dest", "system")

SystemProgramAccount == TakeAccount("system", "invoke")

\* Mutant: source and destination exchanged in the transfer.
InvokeRequest_Swapped(source_account_info, dest_account_info, system_program_account_info, amount) ==
    [instruction |-> system_instruction_transfer(dest_account_info.key,
                                                 source_account_info.key, amount),
     account_infos |-> <<source_account_info, dest_account_info,
                         system_program_account_info>>]

\* The request handed to invoke: the instruction and the account handles.
InvokeRequest(source_account_info, dest_account_info, system_program_account_info, amount) ==
    [instruction |-> system_instruction_transfer(source_account_info.key,
                                                 dest_account_info.key, amount),
     account_infos |-> <<source_account_info, dest_account_info,
                         system_program_account_info>>]

\* Mutant: a failed invoke is tried once more.
Invoke_Retry ==
    /\ pc = "invoke"
    /\ invocations' = Append(invocations,
            InvokeRequest(infos[1], infos[2], infos[3], instruction.val.amount))
    /\ \E r \in InvokeResults :
          /\ invoke_result' = r
          /\ pc' = IF ~r.ok /\ invocations = <<>> THEN "invoke" ELSE "propagate"
    /\ UNCHANGED <<client, tx, input, accounts, instruction, log, iter, infos, result, calls>>

\* processor.rs lines 28-35: invoke(&system_instruction::transfer(..), &[..])
Invoke ==
    /\ pc = "invoke"
    /\ invocations' = Append(invocations,
            InvokeRequest(infos[1], infos[2], infos[3], instruction.val.amount))
    /\ \E r \in InvokeResults : invoke_result' = r
    /\ pc' = "propagate"
    /\ UNCHANGED <<client, tx, input, accounts, instruction, log, iter, infos, result, calls>>

\* Mutant: invoke's result is dropped (no `?`), the call returns Ok(()).
Propagate_Swallow ==
    /\ pc = "propagate"
    /\ result' = Ok(Unit)
    /\ pc' = "done"
    /\ UNCHANGED <<client, tx, input, accounts, instruction, log, iter, infos,
                   invocations, invoke_result, calls>>

\* processor.rs lines 35-36: the `?` on invoke's result, then Ok(()).
Propagate ==
    /\ pc = "propagate"
    /\ result' = IF invoke_result.ok THEN Ok(Unit) ELSE Err(invoke_result.val)
    /\ pc' = "done"
    /\ UNCHANGED <<client, tx, input, accounts, instruction, log, iter, infos,
                   invocations, invoke_result, calls>>

\* Processor::process returns to its caller: its locals are dropped and nothing
\* of the call is kept (Processor has no fields, the module has no statics).
Return ==
    /\ pc = "done"
    /\ pc' = "idle"
    /\ client' = NoCommand
    /\ tx' = NoTx
    /\ input' = <<>>
    /\ accounts' = <<>>
    /\ instruction' = Pending
    /\ log' = <<>>
    /\ iter' = 0
    /\ infos' = <<>>
    /\ invocations' = <<>>
    /\ invoke_result' = Pending
    /\ result' = Pending
    /\ calls' = calls + 1

Next ==
    \/ CommandTransfer
    \/ SendTransaction
    \/ Call
    \/ Unpack
    \/ SourceAccount
    \/ DestAccount
    \/ SystemProgramAccount
    \/ Invoke
    \/ Propagate
    \/ Return

Spec == Init /\ [][Next]_vars

\* The call is synchronous: once entered, every step of it is taken.
FairSpec == Spec /\ WF_vars(Unpack \/ SourceAccount \/ DestAccount
                            \/ SystemProgramAccount \/ Invoke \/ Propagate)

----------------------------------------------------------------------------
(* Properties of the codec *)

\* The call has passed `CpiInstruction::unpack(input)?`.
Unpacked == pc \notin {"idle", "unpack"}

\* The call was made with the instruction the client built.
FromClient == tx # NoTx /\ pc # "idle"

\* a / 256 and a mod 256 on the four-word representation.
U64Div256(a) ==
    [k \in 1..4 |-> (a[k] \div 256) + (IF k < 4 THEN (a[k + 1] % 256) * 256 ELSE 0)]

U64Mod256(a) == a[1] % 256

RECURSIVE U64ByteAt(_, _)
\* (a / 256^i) mod 256
U64ByteAt(a, i) == IF i = 0 THEN U64Mod256(a) ELSE U64ByteAt(U64Div256(a), i - 1)

\* C1: round trip. For every amount a, unpacking the bytes that pack produced
\* for InvokedTransfer{amount: a} succeeds and returns InvokedTransfer{amount: a}.
\* The client packs its lamports into tx.data; the processor unpacks that buffer.
C1_RoundTrip ==
    (FromClient /\ Unpacked) =>
        /\ input = tx.data
        /\ instruction = Ok(InvokedTransfer(client.lamports))

C1_Witness ==
    /\ FromClient /\ Unpacked
    /\ client.lamports = <<513, 1027, 1541, 2055>>
    /\ instruction.ok

\* C2: wire format. The packed InvokedTransfer is exactly 9 bytes: the tag 0,
\* then byte 1+i = (a / 256^i) mod 256 for i in 0..7; 1_000_000 packs to
\* 00 40 42 0F 00 00 00 00 00.
C2_WireFormat ==
    tx # NoTx =>
        /\ Len(tx.data) = 9
        /\ tx.data[1] = 0
        /\ \A i \in 0..7 : tx.data[2 + i] = U64ByteAt(client.lamports, i)
        /\ (client.lamports = <<16960, 15, 0, 0>>
              => tx.data = <<0, 64, 66, 15, 0, 0, 0, 0, 0>>)

C2_Witness ==
    /\ tx # NoTx
    /\ client.lamports = <<16960, 15, 0, 0>>
    /\ tx.data = <<0, 64, 66, 15, 0, 0, 0, 0, 0>>

\* A buffer decode must reject: empty, a first byte other than 0, or a first
\* byte 0 followed by fewer than 8 bytes.
Rejected(buf) == Len(buf) = 0 \/ buf[1] # 0 \/ Len(buf) < 9

\* C3: decode is total and every rejection is InvalidInstruction. For every
\* buffer unpack returns Ok(InvokedTransfer) or Err(Custom(InvalidInstruction)),
\* never a panic and never another error; the empty buffer, a wrong tag and a
\* truncated payload are all rejected.
C3_DecodeTotal ==
    Unpacked =>
        /\ instruction # Panicked
        /\ instruction.ok \/ instruction = Err(Custom(0))
        /\ instruction.ok =>
              instruction.val.tag = "InvokedTransfer" /\ instruction.val.amount \in U64
        /\ Rejected(input) => instruction = Err(Custom(0))

C3_Witness ==
    /\ Unpacked
    /\ Len(input) \in 2..8
    /\ input[1] = 0
    /\ instruction = Err(Custom(0))

\* The little-endian value of bytes lo..lo+7 of a buffer, two bytes a word.
LeValue(buf, lo) ==
    [k \in 1..4 |-> buf[lo + 2 * (k - 1)] + 256 * buf[lo + 2 * (k - 1) + 1]]

\* C10: tolerant-prefix decoding. A buffer with first byte 0 and at least 8
\* more bytes decodes to the little-endian value of bytes 1..8; what follows
\* the ninth byte changes nothing: unpack(b) = unpack(first 9 bytes of b) and
\* pack(unpack(b)) = first 9 bytes of b.
C10_TolerantPrefix ==
    (Unpacked /\ Len(input) >= 9 /\ input[1] = 0) =>
        /\ instruction = Ok(InvokedTransfer(LeValue(input, 2)))
        /\ instruction = unpack(SubSeq(input, 1, 9))
        /\ pack(instruction.val) = SubSeq(input, 1, 9)

C10_Witness ==
    /\ Unpacked
    /\ Len(input) > 9
    /\ input[1] = 0
    /\ input[10] = 255
    /\ instruction = Ok(InvokedTransfer(<<513, 1027, 1541, 2055>>))

----------------------------------------------------------------------------
(* Properties of the processor *)

\* The transfer request the processor must hand to invoke for the given
\* account list and amount.
ExpectedRequest(list, amount) ==
    [instruction |->
        [program_id |-> SystemProgramId,
         accounts |-> <<AccountMeta(list[1].key, TRUE, TRUE),
                        AccountMeta(list[2].key, FALSE, TRUE)>>,
         transfer |-> amount],
     account_infos |-> <<list[1], list[2], list[3]>>]

\* C4: a decoded InvokedTransfer with fewer than 3 accounts fails with the
\* missing-account error (ProgramError::NotEnoughAccountKeys), which is not the
\* codec's InvalidInstruction error (ProgramError::Custom(0)), and invoke is
\* never called.
C4_MissingAccount ==
    (pc # "idle" /\ Len(accounts) < 3) =>
        /\ invocations = <<>>
        /\ invoke_result = Pending
        /\ pc \notin {"invoke", "propagate"}
        /\ (pc = "done" /\ instruction.ok) =>
              /\ result = Err(NotEnoughAccountKeys)
              /\ result # Err(CpiErrorToProgramError(InvalidInstruction))

C4_Witness ==
    /\ pc = "done"
    /\ instruction.ok
    /\ Len(accounts) = 2
    /\ result = Err(NotEnoughAccountKeys)

\* C5: a decoded InvokedTransfer{amount} with at least 3 accounts calls invoke
\* exactly once, with transfer(accounts[0].key, accounts[1].key, amount) and the
\* handles accounts[0], accounts[1], accounts[2] in that order; entries after
\* the third play no part; the call returns Ok when invoke returns Ok.
C5_SingleInvocation ==
    (Unpacked /\ instruction.ok /\ Len(accounts) >= 3) =>
        /\ pc \in {"source", "dest", "system", "invoke"} => invocations = <<>>
        /\ pc \in {"propagate", "done"} =>
              invocations = <<ExpectedRequest(accounts, instruction.val.amount)>>
        /\ (pc = "done" /\ invoke_result = Ok(Unit)) => result = Ok(Unit)

C5_Witness ==
    /\ pc = "done"
    /\ Len(accounts) = 4
    /\ accounts[1].key # accounts[2].key
    /\ Len(invocations) = 1
    /\ result = Ok(Unit)

C7_BuilderCompatible ==
    tx # NoTx =>
        /\ tx.data = pack(InvokedTransfer(client.lamports))
        /\ tx.accounts = << AccountMeta(client.owner, TRUE, TRUE),
                            AccountMeta(client.recipient, FALSE, TRUE),
                            AccountMeta(SystemProgramId, FALSE, FALSE) >>
        /\ tx.program_id = CpiTestId
        /\ pc = "done" =>
              /\ Len(invocations) = 1
              /\ invocations[1].instruction =
                    system_instruction_transfer(client.owner, client.recipient,
                                                client.lamports)
              /\ invocations[1].account_infos = InfosOf(tx.accounts)
              /\ result = invoke_result
              /\ result # Err(CpiErrorToProgramError(InvalidInstruction))
              /\ result # Err(NotEnoughAccountKeys)

C7_Witness ==
    /\ tx # NoTx
    /\ pc = "done"
    /\ client.owner = "bob"
    /\ client.recipient = "alice"
    /\ client.lamports = <<0, 0, 0, 32768>>
    /\ result = Ok(Unit)

\* C8: decoding comes before any account is read. For a buffer that decode
\* rejects, whatever the account list (shorter than 3 included), no account
\* is taken from the list, invoke is not called and the call fails with
\* InvalidInstruction, not with the missing-account error; an account is read
\* only after decoding succeeded.
C8_DecodeFirst ==
    /\ (pc # "idle" /\ Rejected(input)) =>
          /\ iter = 0
          /\ infos = <<>>
          /\ invocations = <<>>
          /\ pc \in {"unpack", "done"}
          /\ pc = "done" => result = Err(CpiErrorToProgramError(InvalidInstruction))
    /\ pc = "unpack" => (iter = 0 /\ infos = <<>> /\ result = Pending)
    /\ iter > 0 => instruction.ok

C8_Witness ==
    /\ pc = "done"
    /\ Rejected(input)
    /\ Len(accounts) < 3
    /\ result = Err(Custom(0))

\* The phase of the current call.
Phase ==
    CASE pc = "idle" -> "Idle"
      [] pc = "unpack" -> "Entered"
      [] pc \in {"source", "dest", "system"} -> "Decoded"
      [] pc = "invoke" -> "Validated"
      [] pc = "propagate" -> "Delegated"
      [] pc = "done" -> IF result.ok THEN "Completed" ELSE "Failed"

PhaseStep ==
    \/ Phase = "Idle" /\ Phase' \in {"Idle", "Entered"}
    \/ Phase = "Entered" /\ Phase' \in {"Decoded", "Failed"}
    \/ Phase = "Decoded" /\ Phase' \in {"Decoded", "Validated", "Failed"}
    \/ Phase = "Validated" /\ Phase' = "Delegated"
    \/ Phase = "Delegated" /\ Phase' \in {"Completed", "Failed"}
    \/ Phase \in {"Completed", "Failed"} /\ Phase' = "Idle"

\* The result of a call as a function of its buffer, its account list and
\* what invoke returned.
Outcome(buf, list, r) ==
    IF Rejected(buf) THEN Err(Custom(0))
    ELSE IF Len(list) < 3 THEN Err(NotEnoughAccountKeys)
    ELSE r

PhaseInvariant ==
    /\ Len(invocations) <= 1
    /\ invocations # <<>> =>
          instruction.ok /\ Len(infos) = 3 /\ Phase \in {"Delegated", "Completed", "Failed"}
    /\ Phase = "Completed" => result = Ok(Unit)
    /\ Phase = "Failed" => result.val \in
              {Custom(0), NotEnoughAccountKeys} \cup DelegatedErrors
    /\ pc = "done" => result = Outcome(input, accounts, invoke_result)
    /\ pc = "unpack" =>
          /\ instruction = Pending /\ log = <<>> /\ iter = 0 /\ infos = <<>>
          /\ invocations = <<>> /\ invoke_result = Pending /\ result = Pending

\* C9: every call goes Decoded -> Validated -> Delegated -> Completed|Failed,
\* never backwards and never past a phase (a failure ends the call from the
\* phase it happens in); it always ends, Completed or Failed with one error;
\* invoke is called at most once and only after decoding and account
\* validation; a call starts from fresh state and its result is a function of
\* its buffer, its account list and invoke's result.
C9_CallStateMachine ==
    /\ [][PhaseStep]_vars
    /\ []PhaseInvariant
    /\ [](pc = "unpack" => <>(pc = "done"))

C9_Witness ==
    /\ calls = 1
    /\ pc = "done"
    /\ Phase = "Completed"
    /\ Len(invocations) = 1

============================================================================
